---- MODULE Spec2Model ----
(***************************************************************************)
(* scripts/generate_release_notes.py: App Store release notes in four      *)
(* locales, generated from a git range through a chat-completion call,     *)
(* extracted from the model's free-form answer, validated and written to   *)
(* a JSON file.                                                            *)
(*                                                                         *)
(* Text.  A Python str is a sequence of one-character strings.  Two kinds  *)
(* of element stand for more than one character:                           *)
(*   - "K" abbreviates a run of BlockWidth non-whitespace characters that  *)
(*     need no JSON escaping, so that texts around the 4000-character      *)
(*     ceiling stay short sequences; len() counts it as BlockWidth;        *)
(*   - a literal of the program that no code inspects (an error message    *)
(*     prefix, the default model name, the file-list placeholder) is one   *)
(*     element holding the whole literal.                                  *)
(* The alphabet of the checked texts has no backslash, no control          *)
(* character other than "\n", and no letter sequence spelling true,        *)
(* false or null, so strings without escapes, integers written with the    *)
(* digit 1 and objects are all the JSON the parser can meet.               *)
(***************************************************************************)
EXTENDS Integers, Sequences, FiniteSets, TLC

\* ------------------------------------------------------------------ bounds

\* Characters abbreviated by one "K" element.
BlockWidth == 1000
\* "K" elements in the longest generated release note.
MaxBlocks == 4
\* Longest text of the exhaustively enumerated extractor inputs.
MaxRawLen == 4

\* --------------------------------------------------------------- constants

\* line 80: len(text) > 4000
MAX_NOTE_CHARS == 4000

ja == <<"j", "a">>
en_US == <<"e", "n", "-", "U", "S">>
es_ES == <<"e", "s", "-", "E", "S">>
ko == <<"k", "o">>

REQUIRED_LOCALES == <<ja, en_US, es_ES, ko>>

\* ------------------------------------------------------------ str methods

Whitespace == {" ", "\n"}

RECURSIVE lstrip(_)
lstrip(s) == IF s # <<>> /\ Head(s) \in Whitespace THEN lstrip(Tail(s)) ELSE s

RECURSIVE rstrip(_)
rstrip(s) ==
    IF s # <<>> /\ s[Len(s)] \in Whitespace
    THEN rstrip(SubSeq(s, 1, Len(s) - 1))
    ELSE s

\* Faulty variant: only the left end is stripped.
strip_left_only(s) == lstrip(s)

\* str.strip()
strip(s) == rstrip(lstrip(s))

\* len(): a "K" element counts for the run it abbreviates.
RECURSIVE len(_)
len(s) ==
    IF s = <<>> THEN 0
    ELSE (IF Head(s) = "K" THEN BlockWidth ELSE 1) + len(Tail(s))

startswith(s, prefix) ==
    Len(s) >= Len(prefix) /\ SubSeq(s, 1, Len(prefix)) = prefix

endswith(s, suffix) ==
    Len(s) >= Len(suffix) /\ SubSeq(s, Len(s) - Len(suffix) + 1, Len(s)) = suffix

\* str.find(c): the 0-based index of the first c from index i on, or -1.
RECURSIVE find_from(_, _, _)
find_from(s, c, i) ==
    IF i >= Len(s) THEN -1
    ELSE IF s[i + 1] = c THEN i
    ELSE find_from(s, c, i + 1)

find(s, c) == find_from(s, c, 0)

\* str.rfind(c): the 0-based index of the last c at or before index i, or -1.
RECURSIVE rfind_from(_, _, _)
rfind_from(s, c, i) ==
    IF i < 0 THEN -1
    ELSE IF s[i + 1] = c THEN i
    ELSE rfind_from(s, c, i - 1)

\* Faulty variant: the first c, not the last.
rfind_first(s, c) == find(s, c)

rfind(s, c) == rfind_from(s, c, Len(s) - 1)

\* s[start : end] for 0 <= start <= end <= len
slice(s, start, end) == SubSeq(s, start + 1, end)

\* sep.join(parts)
RECURSIVE join(_, _)
join(sep, parts) ==
    IF parts = <<>> THEN <<>>
    ELSE IF Len(parts) = 1 THEN parts[1]
    ELSE parts[1] \o sep \o join(sep, Tail(parts))

\* -------------------------------------------------------------- dict, JSON

\* A JSON value: a str (val: its text), an int (val: its digits) or a nested
\* object (val dropped: no code reads into one).  NoneValue is Python's None.
StrValue(s) == [kind |-> "str", val |-> s]
NumValue(d) == [kind |-> "num", val |-> d]
ObjValue == [kind |-> "obj", val |-> <<>>]
NoneValue == [kind |-> "none", val |-> <<>>]

\* {}: a dict is a function from its keys.
EmptyDict == [k \in {} |-> NoneValue]

\* d[k] = v
setitem(d, k, v) == [x \in (DOMAIN d) \cup {k} |-> IF x = k THEN v ELSE d[x]]

\* dict.get(k)
get(d, k) == IF k \in DOMAIN d THEN d[k] ELSE NoneValue

\* json.loads.  A parse answers [ok, val, dict, next]: val is the value read,
\* dict its mapping when it is an object, next the position after it.
ParseError == [ok |-> FALSE, val |-> NoneValue, dict |-> EmptyDict, next |-> 0]

Parsed(v, d, n) == [ok |-> TRUE, val |-> v, dict |-> d, next |-> n]

RECURSIVE skip_ws(_, _)
skip_ws(t, i) ==
    IF i <= Len(t) /\ t[i] \in Whitespace THEN skip_ws(t, i + 1) ELSE i

\* The closing quote of the string opened before position j; 0 when the text
\* ends, or a raw control character comes, before it.
RECURSIVE string_end(_, _)
string_end(t, j) ==
    IF j > Len(t) THEN 0
    ELSE IF t[j] = "\"" THEN j
    ELSE IF t[j] = "\n" THEN 0
    ELSE string_end(t, j + 1)

parse_string(t, i) ==
    LET j == string_end(t, i + 1)
    IN  IF j = 0 THEN ParseError
        ELSE Parsed(StrValue(SubSeq(t, i + 1, j - 1)), EmptyDict, j + 1)

RECURSIVE digits_end(_, _)
digits_end(t, j) ==
    IF j <= Len(t) /\ t[j] = "1" THEN digits_end(t, j + 1) ELSE j

parse_number(t, i) ==
    LET j == digits_end(t, i)
    IN  Parsed(NumValue(SubSeq(t, i, j - 1)), EmptyDict, j)

RECURSIVE parse_value(_, _)
RECURSIVE parse_members(_, _, _)

\* t[i] = "{"
parse_object(t, i) ==
    LET j == skip_ws(t, i + 1)
    IN  IF j > Len(t) THEN ParseError
        ELSE IF t[j] = "}" THEN Parsed(ObjValue, EmptyDict, j + 1)
        ELSE parse_members(t, j, EmptyDict)

parse_value(t, i) ==
    IF i > Len(t) THEN ParseError
    ELSE IF t[i] = "\"" THEN parse_string(t, i)
    ELSE IF t[i] = "1" THEN parse_number(t, i)
    ELSE IF t[i] = "{" THEN parse_object(t, i)
    ELSE ParseError

\* The members of an object from the key at position i on; a repeated key keeps
\* its last value.
parse_members(t, i, acc) ==
    IF i > Len(t) \/ t[i] # "\"" THEN ParseError
    ELSE LET k == parse_string(t, i)
         IN  IF ~k.ok THEN ParseError
             ELSE LET c == skip_ws(t, k.next)
                  IN  IF c > Len(t) \/ t[c] # ":" THEN ParseError
                      ELSE LET v == parse_value(t, skip_ws(t, c + 1))
                           IN  IF ~v.ok THEN ParseError
                               ELSE LET acc2 == setitem(acc, k.val.val, v.val)
                                        e == skip_ws(t, v.next)
                                    IN  IF e > Len(t) THEN ParseError
                                        ELSE IF t[e] = "}"
                                             THEN Parsed(ObjValue, acc2, e + 1)
                                        ELSE IF t[e] = ","
                                             THEN parse_members(t, skip_ws(t, e + 1), acc2)
                                        ELSE ParseError

\* json.loads(s): one value, whitespace around it, nothing after it.
json_loads(s) ==
    LET r == parse_value(s, skip_ws(s, 1))
    IN  IF ~r.ok THEN ParseError
        ELSE IF skip_ws(s, r.next) <= Len(s) THEN ParseError
        ELSE r

\* json.dumps of a value: the alphabet has nothing to escape.
dump_value(v) ==
    IF v.kind = "str" THEN <<"\"">> \o v.val \o <<"\"">> ELSE v.val

dump_item(item) == <<"\"">> \o item[1] \o <<"\"", ":", " ">> \o dump_value(item[2])

\* json.dumps(d, ensure_ascii=False, indent=2 or None), d given as its items in
\* insertion order.
json_dumps(items, indented) ==
    IF items = <<>> THEN <<"{", "}">>
    ELSE IF indented
         THEN <<"{", "\n">>
              \o join(<<",", "\n">>,
                      [i \in 1..Len(items) |-> <<" ", " ">> \o dump_item(items[i])])
              \o <<"\n", "}">>
         ELSE <<"{">>
              \o join(<<",", " ">>, [i \in 1..Len(items) |-> dump_item(items[i])])
              \o <<"}">>

\* ------------------------------------------------------------- exceptions

NoException == [type |-> "none", msg |-> <<>>]

Exception(type, msg) == [type |-> type, msg |-> msg]

\* ---------------------------------------------------- extract_json_object

\* The backtick character (a string of the module cannot hold one).
BACKTICK == "backtick"

FENCE == <<BACKTICK, BACKTICK, BACKTICK>>
JSON_TAG == <<"j", "s", "o", "n">>

\* Line 57: re.sub of the opening fence, an optional json tag and the
\* whitespace after them, on a text that starts with the fence.
sub_opening_fence(text) ==
    LET r1 == SubSeq(text, Len(FENCE) + 1, Len(text))
        r2 == IF startswith(r1, JSON_TAG)
              THEN SubSeq(r1, Len(JSON_TAG) + 1, Len(r1))
              ELSE r1
    IN  lstrip(r2)

\* Line 58: re.sub of a fence at the end of the text and the whitespace
\* before it.  The text ends with no newline here (it was stripped), so the
\* end anchor of the pattern is the end of the text.
sub_closing_fence(text) ==
    IF endswith(text, FENCE)
    THEN rstrip(SubSeq(text, 1, Len(text) - Len(FENCE)))
    ELSE text

\* Lines 55-58: the text in which the braces are looked for.
unfenced(text0) ==
    LET text == strip(text0)
    IN  IF startswith(text, FENCE)
        THEN sub_closing_fence(sub_opening_fence(text))
        ELSE text

\* Faulty variant: the order of the two braces is not looked at.
no_object_span_unordered(start, end) == start = -1 \/ end = -1

\* Line 62
no_object_span(start, end) == start = -1 \/ end = -1 \/ end <= start

\* The answer of a call: exc is the exception raised (NoException on return),
\* payload the dict returned; loads_called and loads_arg record the call of
\* json.loads on line 65.
extract_json_object(text0) ==
    LET text == unfenced(text0)
        start == find(text, "{")
        end == rfind(text, "}")
    IN  IF no_object_span(start, end)
        THEN [exc |-> Exception("ValueError", <<"Model output did not contain a JSON object.">>),
              payload |-> EmptyDict, loads_called |-> FALSE, loads_arg |-> <<>>]
        ELSE LET arg == slice(text, start, end + 1)
                 r == json_loads(arg)
             IN  IF ~r.ok
                 THEN [exc |-> Exception("JSONDecodeError", <<>>),
                       payload |-> EmptyDict, loads_called |-> TRUE, loads_arg |-> arg]
                 ELSE IF r.val.kind # "obj"
                 THEN [exc |-> Exception("ValueError", <<"Model output JSON is not an object.">>),
                       payload |-> EmptyDict, loads_called |-> TRUE, loads_arg |-> arg]
                 ELSE [exc |-> NoException,
                       payload |-> r.dict, loads_called |-> TRUE, loads_arg |-> arg]

\* ------------------------------------------------- validate_release_notes

\* Faulty variant: a blank string counts as a value.
is_missing_unless_str(value) == value.kind # "str"

\* Line 76: not isinstance(value, str) or not value.strip()
is_missing(value) == value.kind # "str" \/ strip(value.val) = <<>>

\* Faulty variants: the ceiling one character too high, and one too low.
exceeds_limit_above(text) == len(text) > MAX_NOTE_CHARS + 1

exceeds_limit_inclusive(text) == len(text) >= MAX_NOTE_CHARS

\* Line 80
exceeds_limit(text) == len(text) > MAX_NOTE_CHARS

\* Line 81
length_message(locale) ==
    <<"Release note for ">> \o locale \o <<" exceeds 4000 characters.">>

\* Line 85
missing_message(missing) ==
    <<"Missing locale(s): ">> \o join(<<",", " ">>, missing)

\* Lines 74-87 from REQUIRED_LOCALES[i] on.  The answer of a call: exc is the
\* exception raised (NoException on return), validated the dict returned,
\* examined the locales the loop looked up, in order.
RECURSIVE validate_from(_, _, _, _, _)
validate_from(payload, i, validated, missing, examined) ==
    IF i > Len(REQUIRED_LOCALES)
    THEN IF missing # <<>>
         THEN [exc |-> Exception("ValueError", missing_message(missing)),
               validated |-> EmptyDict, examined |-> examined]
         ELSE [exc |-> NoException, validated |-> validated, examined |-> examined]
    ELSE LET locale == REQUIRED_LOCALES[i]
             value == get(payload, locale)
         IN  IF is_missing(value)
             THEN validate_from(payload, i + 1, validated,
                                Append(missing, locale), Append(examined, locale))
             ELSE LET text == strip(value.val)
                  IN  IF exceeds_limit(text)
                      THEN [exc |-> Exception("ValueError", length_message(locale)),
                            validated |-> EmptyDict,
                            examined |-> Append(examined, locale)]
                      ELSE validate_from(payload, i + 1,
                                         setitem(validated, locale, text),
                                         missing, Append(examined, locale))

validate_release_notes(payload) == validate_from(payload, 1, EmptyDict, <<>>, <<>>)

\* ------------------------------------------------------------------ state

VARIABLES
    pc,         \* the statement main() is at
    environ,    \* os.environ: name -> [set, val]
    args,       \* the parsed command line: from_sha, to_sha, output
    fs,         \* the file system at args.output: parent directory, file
    fs0,        \* fs as the run found it
    api_key,    \* main's locals
    model,
    commits,
    files,
    response,   \* what urlopen answered
    generated,
    validated,
    outcome,    \* how main() ended: return code or uncaught exception
    trace,      \* every call that leaves the process or is asked about, in order
    given       \* how the input under test was built (the specifications
                \* of extract_json_object and validate_release_notes alone)

vars == <<pc, environ, args, fs, fs0, api_key, model, commits, files, response,
          generated, validated, outcome, trace, given>>

\* One call: arg is the list of its arguments (texts), rc its status, out the
\* text it gave back.
Event(op, arg, rc, out) == [op |-> op, arg |-> arg, rc |-> rc, out |-> out]

Running == [kind |-> "running", code |-> -1, exc |-> NoException]

\* return code from main(), handed to SystemExit on line 177
Returned(code) == [kind |-> "return", code |-> code, exc |-> NoException]

\* An exception no code catches: the interpreter prints the trace and exits 1.
Raised(exc) == [kind |-> "raise", code |-> 1, exc |-> exc]

\* os.environ.get(name, default)
environ_get(name, default) ==
    IF environ[name].set THEN environ[name].val ELSE default

\* ------------------------------------------------------------------- main

\* Faulty variant: the key is not stripped.
read_api_key_unstripped == environ_get("OPENAI_API_KEY", <<>>)

\* Line 136
read_api_key == strip(environ_get("OPENAI_API_KEY", <<>>))

\* Line 140
read_model == strip(environ_get("OPENAI_MODEL", <<"gpt-4o-mini">>))

\* Lines 136-140 (the command line was parsed on lines 130-134).
CheckCredential ==
    /\ pc = "start"
    /\ IF read_api_key = <<>>
       THEN /\ trace' = Append(trace, Event("stderr", <<<<"OPENAI_API_KEY is required.">>>>, 0, <<>>))
            /\ outcome' = Returned(1)
            /\ pc' = "done"
            /\ UNCHANGED <<api_key, model>>
       ELSE /\ api_key' = read_api_key
            /\ model' = read_model
            /\ pc' = "git_log"
            /\ UNCHANGED <<trace, outcome>>
    /\ UNCHANGED <<environ, args, fs, fs0, commits, files, response, generated,
                   validated, given>>

\* Line 43
range_expr(from_sha, to_sha) ==
    IF from_sha # to_sha THEN from_sha \o <<".", ".">> \o to_sha ELSE to_sha

\* What a git subprocess can answer: a non-zero exit, or an exit of 0 with
\* one of the texts on its standard output.
GitAnswers(stdouts) ==
    {[returncode |-> 128, stdout |-> <<>>]}
        \cup {[returncode |-> 0, stdout |-> o] : o \in stdouts}

LogStdouts ==
    {<<>>, <<"\n">>, <<"a1b2c3 Fix login crash">>, <<"a1b2c3 Fix login crash", "\n">>}

DiffStdouts ==
    {<<>>, <<"\n">>, <<"App/Login.swift">>, <<"App/Login.swift", "\n">>}

\* git show prints nothing for a revision that names an empty blob.
ShowStdouts ==
    {<<>>, <<"\n">>, <<"d4e5f6 Bump version">>, <<"d4e5f6 Bump version", "\n">>}

\* Lines 31-39, check=True: the call, then its stripped output or the
\* CalledProcessError.
git_event(argv, r) == Event("git", argv, r.returncode, r.stdout)

git_log_argv == <<<<"log">>, <<"--pretty=format:%h %s">>,
                  range_expr(args.from_sha, args.to_sha), <<"--">>>>

git_diff_argv == <<<<"diff">>, <<"--name-only">>,
                   range_expr(args.from_sha, args.to_sha), <<"--">>>>

git_show_argv == <<<<"show">>, <<"--pretty=format:%h %s">>, <<"--no-patch">>,
                   args.to_sha>>

\* Line 142 into gather_context: lines 43-44.
GitLog ==
    /\ pc = "git_log"
    /\ \E r \in GitAnswers(LogStdouts) :
        /\ trace' = Append(trace, git_event(git_log_argv, r))
        /\ IF r.returncode # 0
           THEN /\ outcome' = Raised(Exception("CalledProcessError", <<>>))
                /\ pc' = "done"
                /\ UNCHANGED commits
           ELSE /\ commits' = strip(r.stdout)
                /\ pc' = "git_diff"
                /\ UNCHANGED outcome
    /\ UNCHANGED <<environ, args, fs, fs0, api_key, model, files, response,
                   generated, validated, given>>

\* Line 45, and the test of line 47.
GitDiff ==
    /\ pc = "git_diff"
    /\ \E r \in GitAnswers(DiffStdouts) :
        /\ trace' = Append(trace, git_event(git_diff_argv, r))
        /\ IF r.returncode # 0
           THEN /\ outcome' = Raised(Exception("CalledProcessError", <<>>))
                /\ pc' = "done"
                /\ UNCHANGED files
           ELSE /\ files' = strip(r.stdout)
                /\ pc' = IF commits = <<>> THEN "git_show" ELSE "files_fallback"
                /\ UNCHANGED outcome
    /\ UNCHANGED <<environ, args, fs, fs0, api_key, model, commits, response,
                   generated, validated, given>>

\* Line 48
GitShow ==
    /\ pc = "git_show"
    /\ \E r \in GitAnswers(ShowStdouts) :
        /\ trace' = Append(trace, git_event(git_show_argv, r))
        /\ IF r.returncode # 0
           THEN /\ outcome' = Raised(Exception("CalledProcessError", <<>>))
                /\ pc' = "done"
                /\ UNCHANGED commits
           ELSE /\ commits' = strip(r.stdout)
                /\ pc' = "files_fallback"
                /\ UNCHANGED outcome
    /\ UNCHANGED <<environ, args, fs, fs0, api_key, model, files, response,
                   generated, validated, given>>

\* Lines 49-51
GatherReturn ==
    /\ pc = "files_fallback"
    /\ files' = IF files = <<>> THEN <<"(no file path changes detected)">> ELSE files
    /\ pc' = "request"
    /\ UNCHANGED <<environ, args, fs, fs0, api_key, model, commits, response,
                   generated, validated, outcome, trace, given>>

\* Lines 144-163: the fixed template around the two texts, stripped.
build_prompt(commit_text, file_text) ==
    strip(<<"\n", "(instructions)", "\n">> \o commit_text
          \o <<"\n", "\n">> \o file_text \o <<"\n">>)

\* What urlopen can answer: an HTTP error status, a failure of the connection,
\* or a body: one that is no JSON, one with no choices, or the envelope around
\* a message content.
Answer(kind, status, body, content) ==
    [kind |-> kind, status |-> status, body |-> body, content |-> content]

NoAnswer == Answer("none", 0, "none", <<>>)

Envelope(content) == Answer("ok", 200, "envelope", content)

Answers(contents) ==
    {Answer("http_error", 500, "none", <<>>),
     Answer("url_error", 0, "none", <<>>),
     Answer("ok", 200, "not_json", <<>>),
     Answer("ok", 200, "no_choices", <<>>)}
        \cup {Envelope(c) : c \in contents}

\* ----------------------------------------------------------------- inputs

Blocks(n) == [i \in 1..n |-> "K"]

\* With the bounds as written: exactly MAX_NOTE_CHARS characters.
LongNote == Blocks(MaxBlocks)

\* The items of a dict of the four locales.
Items(v1, v2, v3, v4) ==
    <<<<ja, StrValue(v1)>>, <<en_US, StrValue(v2)>>,
      <<es_ES, StrValue(v3)>>, <<ko, StrValue(v4)>>>>

GoodItems == Items(<<"a">>, <<"b">>, <<"c">>, <<"d">>)

ExtraItem == <<<<"f", "r">>, StrValue(<<"e">>)>>

Reverse(seq) == [i \in 1..Len(seq) |-> seq[Len(seq) + 1 - i]]

\* The mapping an item list stands for.
DictOf(items) ==
    [k \in {items[i][1] : i \in 1..Len(items)} |->
        items[CHOOSE i \in 1..Len(items) :
                /\ items[i][1] = k
                /\ \A j \in (i + 1)..Len(items) : items[j][1] # k][2]]

Fenced(text) == FENCE \o JSON_TAG \o <<"\n">> \o text \o <<"\n">> \o FENCE

\* The message contents the model answers with in the runs of main().
ModelContents ==
    {json_dumps(GoodItems, FALSE),
     Fenced(json_dumps(GoodItems, TRUE)),
     json_dumps(Append(Items(<<" ", "a", " ">>, <<"b", " ">>, <<" ", "c">>, <<"d">>),
                       ExtraItem), FALSE),
     json_dumps(Reverse(Items(<<"a">>, <<"b">>, <<"c">>, <<" ">> \o LongNote \o <<" ">>)),
                TRUE),
     json_dumps(<<<<ja, StrValue(<<"a">>)>>, <<ko, StrValue(<<"d">>)>>>>, FALSE),
     json_dumps(Items(<<"a">>, <<" ">>, <<"c">>, <<"d">>), FALSE),
     json_dumps(<<<<ja, StrValue(<<"a">>)>>, <<en_US, NumValue(<<"1">>)>>,
                  <<es_ES, StrValue(<<"c">>)>>, <<ko, StrValue(<<"d">>)>>>>, FALSE),
     json_dumps(Items(<<"a">>, LongNote \o <<"x">>, <<"c">>, <<"d">>), FALSE),
     Fenced(json_dumps(<<<<en_US, StrValue(LongNote \o <<"x">>)>>>>, FALSE)),
     <<"{", "x", "}", " ">> \o json_dumps(GoodItems, FALSE),
     <<"s", "o", "r", "r", "y">>,
     <<"}", " ", "{">>,
     <<>>}

\* ------------------------------------------------------- main, continued

\* Line 165 into call_openai: lines 90-122, the POST and its answer.
PostRequest ==
    /\ pc = "request"
    /\ \E r \in Answers(ModelContents) :
        /\ trace' = Append(trace,
                           Event("urlopen", <<model, api_key, build_prompt(commits, files)>>,
                                 r.status, r.content))
        /\ IF r.kind = "http_error"
           THEN /\ outcome' = Raised(Exception("RuntimeError", <<"OpenAI API error: ">>))
                /\ pc' = "done"
                /\ UNCHANGED response
           ELSE IF r.kind = "url_error"
           THEN /\ outcome' = Raised(Exception("URLError", <<>>))
                /\ pc' = "done"
                /\ UNCHANGED response
           ELSE /\ response' = r
                /\ pc' = "decode"
                /\ UNCHANGED outcome
    /\ UNCHANGED <<environ, args, fs, fs0, api_key, model, commits, files,
                   generated, validated, given>>

\* Lines 124-126: the envelope, then extract_json_object on its content.
Extract ==
    /\ pc = "decode"
    /\ IF response.body = "not_json"
       THEN /\ outcome' = Raised(Exception("JSONDecodeError", <<>>))
            /\ pc' = "done"
            /\ UNCHANGED <<generated, trace>>
       ELSE IF response.body = "no_choices"
       THEN /\ outcome' = Raised(Exception("KeyError", <<"choices">>))
            /\ pc' = "done"
            /\ UNCHANGED <<generated, trace>>
       ELSE LET r == extract_json_object(response.content)
            IN  /\ trace' = IF r.loads_called
                            THEN Append(trace, Event("json.loads", <<r.loads_arg>>, 0, <<>>))
                            ELSE trace
                /\ IF r.exc # NoException
                   THEN /\ outcome' = Raised(r.exc)
                        /\ pc' = "done"
                        /\ UNCHANGED generated
                   ELSE /\ generated' = r.payload
                        /\ pc' = "validate"
                        /\ UNCHANGED outcome
    /\ UNCHANGED <<environ, args, fs, fs0, api_key, model, commits, files,
                   response, validated, given>>

\* Faulty variant: the validation error is dropped and the run goes on.
Validate_lenient ==
    /\ pc = "validate"
    /\ LET r == validate_release_notes(generated)
       IN  /\ trace' = trace \o [i \in 1..Len(r.examined) |->
                                    Event("payload.get", <<r.examined[i]>>, 0, <<>>)]
           /\ validated' = r.validated
           /\ pc' = "write"
           /\ UNCHANGED outcome
    /\ UNCHANGED <<environ, args, fs, fs0, api_key, model, commits, files,
                   response, generated, given>>

\* Line 166
Validate ==
    /\ pc = "validate"
    /\ LET r == validate_release_notes(generated)
       IN  /\ trace' = trace \o [i \in 1..Len(r.examined) |->
                                    Event("payload.get", <<r.examined[i]>>, 0, <<>>)]
           /\ IF r.exc # NoException
              THEN /\ outcome' = Raised(r.exc)
                   /\ pc' = "done"
                   /\ UNCHANGED validated
              ELSE /\ validated' = r.validated
                   /\ pc' = "write"
                   /\ UNCHANGED outcome
    /\ UNCHANGED <<environ, args, fs, fs0, api_key, model, commits, files,
                   response, generated, given>>

\* The items of the dict of validated texts, in insertion order: the loop of
\* lines 74-82 inserts in the order of REQUIRED_LOCALES.
items_of(d) ==
    LET present(l) == l \in DOMAIN d
        keys == SelectSeq(REQUIRED_LOCALES, present)
    IN  [i \in 1..Len(keys) |-> <<keys[i], StrValue(d[keys[i]])>>]

\* Line 170: the text written.
file_text(d) == json_dumps(items_of(d), TRUE) \o <<"\n">>

\* Lines 168-173
Write ==
    /\ pc = "write"
    /\ fs' = [parent_exists |-> TRUE, file_exists |-> TRUE,
              content |-> file_text(validated)]
    /\ trace' = trace \o <<Event("mkdir", <<args.output>>, 0, <<>>),
                           Event("write_text", <<args.output>>, 0, file_text(validated)),
                           Event("stdout", <<<<"Wrote localized release notes to ">> \o args.output>>,
                                 0, <<>>)>>
    /\ outcome' = Returned(0)
    /\ pc' = "done"
    /\ UNCHANGED <<environ, args, fs0, api_key, model, commits, files, response,
                   generated, validated, given>>

\* ------------------------------------------------------- specifications

\* The environment a run can find.
EnvTexts == {<<>>, <<" ">>, <<"v">>, <<" ", "v", "\n">>}

EnvValues ==
    {[set |-> FALSE, val |-> <<>>]} \cup {[set |-> TRUE, val |-> t] : t \in EnvTexts}

Environs == [{"OPENAI_API_KEY", "OPENAI_MODEL"} -> EnvValues]

Revisions == {<<"r", "1">>, <<"r", "2">>}

ArgSets == [from_sha : Revisions, to_sha : Revisions, output : {<<"out/notes.json">>}]

\* No directory; a directory without the file; an earlier file.
InitialFs ==
    {[parent_exists |-> FALSE, file_exists |-> FALSE, content |-> <<>>],
     [parent_exists |-> TRUE, file_exists |-> FALSE, content |-> <<>>],
     [parent_exists |-> TRUE, file_exists |-> TRUE, content |-> <<"o", "l", "d">>]}

NotGiven ==
    [form |-> "run", lead |-> <<>>, open |-> <<>>, items |-> <<>>,
     indented |-> FALSE, close |-> <<>>, trail |-> <<>>, payload |-> EmptyDict]

\* The state the locals are in before main() assigns them.
Unassigned ==
    /\ api_key = <<>>
    /\ model = <<>>
    /\ commits = <<>>
    /\ files = <<>>
    /\ validated = EmptyDict
    /\ outcome = Running
    /\ trace = <<>>

Init ==
    /\ pc = "start"
    /\ environ \in Environs
    /\ args \in ArgSets
    /\ fs \in InitialFs
    /\ fs0 = fs
    /\ given = NotGiven
    /\ response = NoAnswer
    /\ generated = EmptyDict
    /\ Unassigned

Next ==
    \/ CheckCredential
    \/ GitLog
    \/ GitDiff
    \/ GitShow
    \/ GatherReturn
    \/ PostRequest
    \/ Extract
    \/ Validate
    \/ Write

\* One run of main(), from the command line to the exit.
Spec == Init /\ [][Next]_vars

\* extract_json_object alone: one call (line 126) on each text of a family.
\* A wrapped text is a dict of strings, dumped, inside an optional fence,
\* between an optional lead and an optional trail of prose; a raw text is any
\* text of up to MaxRawLen characters of the alphabet.
Prose ==
    {<<>>, <<"x", "\n">>, <<"\n", "x">>, <<BACKTICK>>,
     <<"{", "\n">>, <<"\n", "}">>, <<"{", "x", "}">>}

OpeningFences ==
    {<<>>, FENCE, FENCE \o <<"\n">>, FENCE \o JSON_TAG, FENCE \o JSON_TAG \o <<"\n">>}

ClosingFences == {<<>>, FENCE, <<"\n">> \o FENCE}

ItemLists ==
    {<<>>,
     GoodItems,
     Reverse(Append(GoodItems, ExtraItem)),
     Items(<<"{">>, <<"}", " ">>, <<BACKTICK, "{", "}">>, <<" ", "K">>),
     <<<<ja, StrValue(<<"}", "{">>)>>>>}

Wrappings ==
    {[form |-> "wrapped", lead |-> l, open |-> o, items |-> it, indented |-> b,
      close |-> c, trail |-> t, payload |-> EmptyDict] :
        l \in Prose, o \in OpeningFences, it \in ItemLists, b \in BOOLEAN,
        c \in ClosingFences, t \in Prose}

RawAlphabet == {"{", "}", "x", " ", BACKTICK}

RawTexts == UNION {[1..n -> RawAlphabet] : n \in 0..MaxRawLen}

RawGiven ==
    {[form |-> "raw", lead |-> t, open |-> <<>>, items |-> <<>>, indented |-> FALSE,
      close |-> <<>>, trail |-> <<>>, payload |-> EmptyDict] : t \in RawTexts}

Wrap(g) ==
    IF g.form = "raw" THEN g.lead
    ELSE g.lead \o g.open \o json_dumps(g.items, g.indented) \o g.close \o g.trail

\* The rest of the state of a call under test.
Isolated ==
    /\ environ = [n \in {"OPENAI_API_KEY", "OPENAI_MODEL"} |-> [set |-> FALSE, val |-> <<>>]]
    /\ args = [from_sha |-> <<"r", "1">>, to_sha |-> <<"r", "2">>,
               output |-> <<"out/notes.json">>]
    /\ fs = [parent_exists |-> FALSE, file_exists |-> FALSE, content |-> <<>>]
    /\ fs0 = fs
    /\ Unassigned

InitExtract ==
    /\ pc = "decode"
    /\ given \in Wrappings \cup RawGiven
    /\ response = Envelope(Wrap(given))
    /\ generated = EmptyDict
    /\ Isolated

NextExtract == Extract

SpecExtract == InitExtract /\ [][NextExtract]_vars

\* validate_release_notes alone: one call (line 166) on each payload that
\* gives every required locale no value, a number or one of the texts, with
\* or without a key that is no required locale.
NoteTexts ==
    {<<>>, <<" ">>, <<"a">>, <<" ", "a", "\n">>,
     LongNote, <<" ">> \o LongNote \o <<"\n">>,
     LongNote \o <<"x">>, <<"\n">> \o LongNote \o <<"x", " ">>}

NoteValues == {NumValue(<<"1">>)} \cup {StrValue(t) : t \in NoteTexts}

RequiredSet == {REQUIRED_LOCALES[i] : i \in 1..Len(REQUIRED_LOCALES)}

Payloads ==
    LET required == UNION {[S -> NoteValues] : S \in SUBSET RequiredSet}
    IN  required \cup {setitem(d, ExtraItem[1], ExtraItem[2]) : d \in required}

InitValidate ==
    /\ pc = "validate"
    /\ given \in {[form |-> "payload", lead |-> <<>>, open |-> <<>>, items |-> <<>>,
                   indented |-> FALSE, close |-> <<>>, trail |-> <<>>, payload |-> d] :
                    d \in Payloads}
    /\ response = NoAnswer
    /\ generated = given.payload
    /\ Isolated

NextValidate == Validate

SpecValidate == InitValidate /\ [][NextValidate]_vars

\* -------------------------------------------------- reference definitions
\* What the properties are stated with: the same notions, defined without
\* the operators of the program.

IsBlank(s) == \A i \in 1..Len(s) : s[i] \in Whitespace

\* s without the whitespace at its two ends.
Trimmed(s) ==
    IF IsBlank(s) THEN <<>>
    ELSE LET solid == {i \in 1..Len(s) : s[i] \notin Whitespace}
             lo == CHOOSE i \in solid : \A j \in solid : i <= j
             hi == CHOOSE i \in solid : \A j \in solid : j <= i
         IN  SubSeq(s, lo, hi)

\* The number of characters of s.
CharCount(s) ==
    Cardinality({i \in 1..Len(s) : s[i] # "K"})
        + BlockWidth * Cardinality({i \in 1..Len(s) : s[i] = "K"})

\* parts[1], ", ", parts[2], ...
CommaList(parts) ==
    LET upto[i \in 0..Len(parts)] ==
            IF i = 0 THEN <<>>
            ELSE IF i = 1 THEN parts[1]
            ELSE upto[i - 1] \o <<",", " ">> \o parts[i]
    IN  upto[Len(parts)]

\* The locale has no value in the payload, or one that is no string, or a
\* blank one.
Lacks(payload, locale) ==
    \/ locale \notin DOMAIN payload
    \/ payload[locale].kind # "str"
    \/ IsBlank(payload[locale].val)

\* The locale has a string of more than MAX_NOTE_CHARS characters between
\* its first and last non-whitespace one.
OverLong(payload, locale) ==
    /\ locale \in DOMAIN payload
    /\ payload[locale].kind = "str"
    /\ CharCount(Trimmed(payload[locale].val)) > MAX_NOTE_CHARS

\* The required locales the payload lacks, in the order of REQUIRED_LOCALES.
LackedLocales(payload) ==
    LET lacked(l) == Lacks(payload, l)
    IN  SelectSeq(REQUIRED_LOCALES, lacked)

OverLongIndexes(payload) ==
    {i \in 1..Len(REQUIRED_LOCALES) : OverLong(payload, REQUIRED_LOCALES[i])}

Ops == [i \in 1..Len(trace) |-> trace[i].op]

\* The locales validate_release_notes looked up, in order.
Examined ==
    LET gets == {i \in 1..Len(trace) : trace[i].op = "payload.get"}
        nth(n) == CHOOSE i \in gets : Cardinality({j \in gets : j <= i}) = n
    IN  [n \in 1..Cardinality(gets) |-> trace[nth(n)].arg[1]]

RaisedValueError(msg) ==
    /\ pc = "done"
    /\ outcome.kind = "raise"
    /\ outcome.exc = Exception("ValueError", msg)

\* ------------------------------------------------------------------ claims

\* C4: running validate_release_notes on a payload that lacks at least one
\* required locale (absent, not a string, or blank) and has no over-long one
\* raises the missing-locale error, whose message lists exactly the lacked
\* locales, comma-joined in the order ja, en-US, es-ES, ko.
C4_MissingLocalesListed ==
    (/\ pc # "validate"
     /\ LackedLocales(given.payload) # <<>>
     /\ OverLongIndexes(given.payload) = {})
        => RaisedValueError(<<"Missing locale(s): ">>
                                \o CommaList(LackedLocales(given.payload)))

\* C4: the call on a payload of ja and ko alone has reported en-US, es-ES.
C4_Witness ==
    /\ DOMAIN given.payload = {ja, ko}
    /\ ~Lacks(given.payload, ja)
    /\ ~Lacks(given.payload, ko)
    /\ RaisedValueError(<<"Missing locale(s): ", "e", "n", "-", "U", "S", ",", " ",
                          "e", "s", "-", "E", "S">>)

\* C5: validate_release_notes raises the length error exactly when some
\* required locale is over-long; the error names the first over-long locale
\* in the order ja, en-US, es-ES, ko, and the loop has looked up the locales
\* up to that one and none after it, whatever locales it lacked before.
C5_LengthErrorFailFast ==
    pc # "validate" =>
        LET over == OverLongIndexes(given.payload)
        IN  IF over # {}
            THEN LET first == CHOOSE i \in over : \A j \in over : i <= j
                 IN  /\ RaisedValueError(<<"Release note for ">>
                                            \o REQUIRED_LOCALES[first]
                                            \o <<" exceeds 4000 characters.">>)
                     /\ Examined = SubSeq(REQUIRED_LOCALES, 1, first)
            ELSE /\ outcome.exc.msg = <<>> \/ Head(outcome.exc.msg) # "Release note for "
                 /\ Examined = REQUIRED_LOCALES

\* C5: ja is absent, en-US is one character over the ceiling once trimmed and
\* padded with whitespace before that, ko is absent; the error names en-US
\* and es-ES and ko were never looked up.
C5_Witness ==
    /\ ja \notin DOMAIN given.payload
    /\ ko \notin DOMAIN given.payload
    /\ OverLong(given.payload, en_US)
    /\ CharCount(Trimmed(given.payload[en_US].val)) = MAX_NOTE_CHARS + 1
    /\ Trimmed(given.payload[en_US].val) # given.payload[en_US].val
    /\ RaisedValueError(<<"Release note for ", "e", "n", "-", "U", "S",
                          " exceeds 4000 characters.">>)
    /\ Examined = <<ja, en_US>>

\* C6: validate_release_notes, on a payload whose four required locales are
\* non-blank strings of at most 4000 characters once trimmed, returns the
\* dict of exactly the four locales, each with the trimmed value of the
\* payload, and leaves the payload as it was.
C6_ValidPayloadAccepted ==
    (/\ pc # "validate"
     /\ LackedLocales(given.payload) = <<>>
     /\ OverLongIndexes(given.payload) = {})
        => /\ pc = "write"
           /\ outcome = Running
           /\ DOMAIN validated = RequiredSet
           /\ \A l \in RequiredSet : validated[l] = Trimmed(given.payload[l].val)
           /\ generated = given.payload

\* C6: a payload with a fifth key and a padded ko of exactly 4000 characters
\* once trimmed was accepted, the key dropped and the padding trimmed.
C6_Witness ==
    /\ pc = "write"
    /\ DOMAIN given.payload = RequiredSet \cup {ExtraItem[1]}
    /\ DOMAIN validated = RequiredSet
    /\ CharCount(validated[ko]) = MAX_NOTE_CHARS
    /\ validated[ko] # given.payload[ko].val

BraceFree(t) == \A i \in 1..Len(t) : t[i] \notin {"{", "}"}

\* The positions, from 1, of the first "{" and of the last "}" of t.
FirstOpen(t) ==
    CHOOSE i \in 1..Len(t) : t[i] = "{" /\ \A j \in 1..(i - 1) : t[j] # "{"

LastClose(t) ==
    CHOOSE i \in 1..Len(t) : t[i] = "}" /\ \A j \in (i + 1)..Len(t) : t[j] # "}"

\* t has no "{", or no "}", or its last "}" is not after its first "{".
NoSpan(t) ==
    \/ \A i \in 1..Len(t) : t[i] # "{"
    \/ \A i \in 1..Len(t) : t[i] # "}"
    \/ LastClose(t) <= FirstOpen(t)

C8_SpanOrFormatError ==
    pc # "decode" =>
        LET t == unfenced(response.content)
        IN  IF NoSpan(t)
            THEN /\ RaisedValueError(<<"Model output did not contain a JSON object.">>)
                 /\ generated = EmptyDict
                 /\ trace = <<>>
            ELSE /\ Len(trace) = 1
                 /\ trace[1].op = "json.loads"
                 /\ trace[1].arg = <<SubSeq(t, FirstOpen(t), LastClose(t))>>

\* C8: a text with both braces, every "}" before the first "{", was refused.
C8_Witness ==
    /\ given.form = "raw"
    /\ \E i, j \in 1..Len(response.content) :
        /\ response.content[i] = "}"
        /\ response.content[j] = "{"
    /\ NoSpan(unfenced(response.content))
    /\ RaisedValueError(<<"Model output did not contain a JSON object.">>)

\* The run of main() created the directory or wrote the file.
Wrote == \E i \in 1..Len(trace) : trace[i].op \in {"mkdir", "write_text"}

KeyBlank ==
    \/ ~environ["OPENAI_API_KEY"].set
    \/ IsBlank(environ["OPENAI_API_KEY"].val)

\* C1: whenever a run of main() has changed the output file, the file parses
\* as a JSON object whose keys are exactly ja, en-US, es-ES and ko, each with
\* a string that is not empty, has no whitespace at its ends and has at most
\* 4000 characters.
C1_WrittenFileIsValid ==
    fs # fs0 =>
        LET r == json_loads(fs.content)
        IN  /\ r.ok
            /\ r.val.kind = "obj"
            /\ DOMAIN r.dict = RequiredSet
            /\ \A l \in RequiredSet :
                /\ r.dict[l].kind = "str"
                /\ r.dict[l].val # <<>>
                /\ Trimmed(r.dict[l].val) = r.dict[l].val
                /\ CharCount(r.dict[l].val) <= MAX_NOTE_CHARS

\* C1: a run replaced an earlier file; the model had answered with a fifth
\* key and padded values, and the file holds the four trimmed ones.
C1_Witness ==
    /\ fs # fs0
    /\ fs0.file_exists
    /\ ExtraItem[1] \in DOMAIN generated
    /\ generated[ja].val = <<" ", "a", " ">>
    /\ json_loads(fs.content).dict = [l \in RequiredSet |-> StrValue(validated[l])]
    /\ validated[ja] = <<"a">>

\* The calls of a run up to the end of validation, with or without the
\* fallback git show.
StageOps(show) ==
    <<"git", "git">> \o (IF show THEN <<"git">> ELSE <<>>)
        \o <<"urlopen", "json.loads",
             "payload.get", "payload.get", "payload.get", "payload.get">>

WriteOps == <<"mkdir", "write_text", "stdout">>

\* C2: main() reaches its write step, creates the directory or changes the
\* file only in a run whose credential check, git queries, request,
\* extraction and validation succeeded, in that order; a run that ends any
\* other way has created no directory and left the file as it found it.
C2_WriteOnlyAfterAllStages ==
    /\ (pc = "write" \/ Wrote \/ fs # fs0) =>
        /\ ~KeyBlank
        /\ api_key = Trimmed(environ["OPENAI_API_KEY"].val)
        /\ \E show \in BOOLEAN :
            Ops = StageOps(show) \o (IF pc = "write" THEN <<>> ELSE WriteOps)
        /\ \A i \in 1..Len(trace) :
            /\ trace[i].op = "git" => trace[i].rc = 0
            /\ trace[i].op = "urlopen" => trace[i].rc = 200
        /\ response.body = "envelope"
        /\ extract_json_object(response.content).exc = NoException
        /\ generated = extract_json_object(response.content).payload
        /\ LackedLocales(generated) = <<>>
        /\ OverLongIndexes(generated) = {}
        /\ DOMAIN validated = RequiredSet
    /\ (pc = "done" /\ outcome # Returned(0)) => (fs = fs0 /\ ~Wrote)

\* C2: a run ended on a validation error after every earlier stage had
\* succeeded, and the earlier file is untouched.
C2_Witness ==
    /\ pc = "done"
    /\ outcome.kind = "raise"
    /\ \E show \in BOOLEAN : Ops = StageOps(show)
    /\ fs0.file_exists
    /\ fs = fs0

\* C3: with OPENAI_API_KEY unset, empty or blank, main() returns 1 after one
\* line on the error stream and nothing else: no git call, no request, no
\* write.  With any other key main() never returns 1 and prints no such line.
C3_BlankKeyExitsFirst ==
    /\ (KeyBlank /\ pc # "start") =>
        /\ pc = "done"
        /\ outcome = Returned(1)
        /\ trace = <<Event("stderr", <<<<"OPENAI_API_KEY is required.">>>>, 0, <<>>)>>
        /\ fs = fs0
    /\ ~KeyBlank =>
        /\ ~(outcome.kind = "return" /\ outcome.code = 1)
        /\ \A i \in 1..Len(trace) : trace[i].op # "stderr"

\* C3: a run with a key of whitespace alone has returned 1.
C3_Witness ==
    /\ environ["OPENAI_API_KEY"].set
    /\ environ["OPENAI_API_KEY"].val = <<" ">>
    /\ pc = "done"
    /\ outcome = Returned(1)
    /\ Ops = <<"stderr">>

\* C9: every request names the trimmed OPENAI_MODEL when that is not empty
\* and gpt-4o-mini otherwise, whether the variable is unset or set to an
\* empty or blank text; no request names an empty model.
C9_ModelNameDefaulted ==
    \A i \in 1..Len(trace) :
        trace[i].op = "urlopen" =>
            /\ trace[i].arg[1] # <<>>
            /\ trace[i].arg[1] =
                IF environ["OPENAI_MODEL"].set /\ ~IsBlank(environ["OPENAI_MODEL"].val)
                THEN Trimmed(environ["OPENAI_MODEL"].val)
                ELSE <<"gpt-4o-mini">>

\* The range the log and diff queries are asked about.
RangeText ==
    IF args.from_sha = args.to_sha THEN args.to_sha
    ELSE args.from_sha \o <<".", ".">> \o args.to_sha

\* gather_context without the last clause of C10: the range expression, the
\* two fallbacks, the place of the show query and the abort on a non-zero
\* exit.
GatherContextFallbacks ==
    /\ \A i \in 1..Len(trace) :
        /\ (trace[i].op = "git" /\ trace[i].arg[1] \in {<<"log">>, <<"diff">>})
            => /\ trace[i].arg[3] = RangeText
               /\ (args.from_sha = args.to_sha => \A k \in 1..Len(trace[i].arg[3]) :
                                                    trace[i].arg[3][k] # ".")
        /\ (trace[i].op = "git" /\ trace[i].rc # 0)
            => /\ i = Len(trace)
               /\ pc = "done"
               /\ outcome.kind = "raise"
    /\ pc = "request" =>
        /\ trace[1].arg[1] = <<"log">>
        /\ trace[2].arg[1] = <<"diff">>
        /\ IF Trimmed(trace[1].out) # <<>>
           THEN /\ Len(trace) = 2
                /\ commits = Trimmed(trace[1].out)
           ELSE /\ Len(trace) = 3
                /\ trace[3].arg = <<<<"show">>, <<"--pretty=format:%h %s">>,
                                    <<"--no-patch">>, args.to_sha>>
                /\ commits = Trimmed(trace[3].out)
        /\ files = IF Trimmed(trace[2].out) # <<>>
                   THEN Trimmed(trace[2].out)
                   ELSE <<"(no file path changes detected)">>
        /\ files # <<>>

\* C10: gather_context asks about from..to, or about to alone when the two
\* are equal; it returns the range log, or the no-patch show of to when that
\* log is empty, asked after the log and the diff, and the diff output, or
\* the placeholder when that is empty, so that neither text it returns is
\* empty; a non-zero exit of a query aborts the run.
C10_GatherContextNeverEmpty ==
    /\ GatherContextFallbacks
    /\ pc = "request" => commits # <<>>

====
